---------------------------- MODULE Spec2Model ----------------------------
(***************************************************************************)
(* A model of src/data_source/update.rs of the HotShot query service:      *)
(*   - UpdateDataSource::update, the algorithm that turns a consensus      *)
(*     event into insert_leaf / insert_vid / insert_block calls on the     *)
(*     storage it is given, with store_genesis_vid for the genesis leaf;   *)
(*   - the VersionedDataSource / Transaction contract (write, read,        *)
(*     commit, revert), of which the file holds the declarations and the   *)
(*     documentation.                                                      *)
(* update is modelled one await point at a time: every storage insert is   *)
(* one step whose outcome (Ok or Err) the storage chooses.                 *)
(***************************************************************************)
EXTENDS Integers, Sequences, FiniteSets, TLC

(***************************************************************************)
(* Bounds of the model.                                                    *)
(***************************************************************************)
\* Longest leaf chain of a Decide event.
MaxLen == 2
\* Leaves carry view numbers 0..MaxView.
MaxView == 2
\* Number of shares a dispersal of the genesis payload yields (the width
\* GENESIS_VID_NUM_STORAGE_NODES, which is set outside this file).
NumStorageNodes == 2
\* Connections to the data source, and records a transaction may insert.
MaxConn == 2
MaxRec == 2

VARIABLES
    event,      \* the &Event<Types> update was called with
    pc,         \* position of update: "start", "loop", "vid", "block", "done"
    k,          \* index of the (qc, leaf) pair the for loop is at, from 1
    calls,      \* the storage inserts issued so far, in order, with outcomes
    logged,     \* the tracing::error! messages emitted so far, in order
    result,     \* what update returned: "pending" until it returns
    store,      \* the records committed to persistent storage
    conn,       \* per connection: its open transaction, if any
    last        \* history: the transaction operation of the last step

uvars == <<event, pc, k, calls, logged, result>>
tvars == <<store, conn, last>>

(***************************************************************************)
(* Option<T>: None is the empty sequence, Some(x) the sequence <<x>>.      *)
(***************************************************************************)
None == <<>>
Some(x) == <<x>>
IsSome(o) == o # <<>>
Unwrap(o) == o[1]

(***************************************************************************)
(* The iterator adaptors update uses, on finite sequences.                 *)
(***************************************************************************)
Once(x) == <<x>>
Chain(a, b) == a \o b
Rev(s) == [j \in 1..Len(s) |-> s[Len(s) + 1 - j]]
Skip(s, n) == SubSeq(s, n + 1, Len(s))
Min(a, b) == IF a <= b THEN a ELSE b
Zip(a, b) == [j \in 1..Min(Len(a), Len(b)) |-> <<a[j], b[j]>>]

(***************************************************************************)
(* Data.  A leaf is                                                        *)
(*   [view_number, justify_qc, block_header, block_payload]                *)
(* with block_header = [block_number, payload_commitment] and              *)
(* block_payload an Option.  A certificate is [leaf_commit].  The          *)
(* commitment of a leaf is a hash of it; it is kept here as the block      *)
(* number of the leaf's header, which tells the leaves of one chain apart. *)
(***************************************************************************)
LeafCommit(leaf) == leaf.block_header.block_number

\* A commitment no leaf of the event has: what a tampered certificate names.
UnknownCommit == -1

\* Commitment of the dispersal of the empty payload, and any other one.
EmptyCommit == "cm_empty"
OtherCommit == "cm_other"

\* The certificate for the leaf with block number h; tampered if h = broken.
CertFor(h, broken) ==
    [leaf_commit |-> IF h = broken /\ h > 0 THEN UnknownCommit ELSE h]

\* What varies from leaf to leaf in the events of the model.  The payload
\* commitment of the header is only read for a leaf of view 0 without
\* share, and is varied only there.
LeafShapes ==
    { s \in [view_number : 0..MaxView, has_share : BOOLEAN,
             has_payload : BOOLEAN,
             payload_commitment : {EmptyCommit, OtherCommit}] :
        \/ s.view_number = 0 /\ ~s.has_share
        \/ s.payload_commitment =
             (IF s.view_number = 0 THEN EmptyCommit ELSE OtherCommit) }

\* LeafInfo of the leaf with block number h.
MkLeafInfo(h, s, broken) ==
    [leaf |->
        [view_number   |-> s.view_number,
         justify_qc    |-> CertFor(h - 1, broken),
         block_header  |-> [block_number |-> h,
                            payload_commitment |-> s.payload_commitment],
         block_payload |-> IF s.has_payload THEN Some(<<"tx", h>>) ELSE None],
     vid_share |->
        IF s.has_share
        THEN Some([common |-> <<"common", h>>, share |-> <<"share", h>>])
        ELSE None]

\* EventType::Decide { leaf_chain, qc, .. }: the chain is newest first, the
\* leaf at index j has block number n + 1 - j, and at most one certificate
\* (the one for block number broken) is tampered: update stops at the first
\* inconsistent pair and reads no later one.
DecideEvent(n, shapes, broken) ==
    [kind       |-> "Decide",
     qc         |-> CertFor(n, broken),
     leaf_chain |-> [j \in 1..n |-> MkLeafInfo(n + 1 - j, shapes[j], broken)]]

\* The other variants of EventType carry no leaf chain that update reads.
OtherEventKinds == {"ViewFinished", "Error"}

(***************************************************************************)
(* update, lines 68-125.                                                   *)
(***************************************************************************)
\* leaf_chain.iter().map(|leaf| leaf.leaf.justify_qc())
JustifyQcs(leaf_chain) ==
    [j \in 1..Len(leaf_chain) |-> leaf_chain[j].leaf.justify_qc]

\* Qcs without the skip(1): the oldest justify_qc is kept.
Qcs_NoSkip(ev) == Rev(Chain(Once(ev.qc), JustifyQcs(ev.leaf_chain)))

\* once(qc).chain(...).rev().skip(1), lines 71-79
Qcs(ev) == Skip(Rev(Chain(Once(ev.qc), JustifyQcs(ev.leaf_chain))), 1)

\* Pairs without the rev() of the leaf chain: zipped newest first.
Pairs_NoRev(ev) == Zip(Skip(Rev(Chain(Once(ev.qc), JustifyQcs(ev.leaf_chain))), 1),
                       ev.leaf_chain)

\* qcs.zip(leaf_chain.iter().rev()), line 85: pairs <<qc, LeafInfo>>
Pairs(ev) == Zip(Qcs(ev), Rev(ev.leaf_chain))

\* LeafQueryData::new(leaf, qc) is Ok exactly when the certificate names the
\* leaf; the value it builds holds both.
LeafConsistent(leaf, qc) == qc.leaf_commit = LeafCommit(leaf)
LeafQueryData(leaf, qc) == [leaf |-> leaf, qc |-> qc]

\* VidCommonQueryData::new(header, common) and BlockQueryData::new(header, payload)
VidCommonQueryData(header, common) == [header |-> header, common |-> common]
BlockQueryData(header, payload) == [header |-> header, payload |-> payload]

CurQc == Pairs(event)[k][1]
CurInfo == Pairs(event)[k][2]
CurLeaf == CurInfo.leaf

Return(r) ==
    /\ result' = r
    /\ pc' = "done"

\* UpdateIgnore that returns an error for an event it does not store.
UpdateIgnore_Reject ==
    /\ pc = "start"
    /\ event.kind # "Decide"
    /\ Return("unsupported event")
    /\ UNCHANGED <<store, conn, last, event, k, calls, logged>>

\* Line 69, an event that is no Decide: nothing to do, line 124.
UpdateIgnore ==
    /\ pc = "start"
    /\ event.kind # "Decide"
    /\ Return("Ok")
    /\ UNCHANGED <<store, conn, last, event, k, calls, logged>>

\* UpdateDecide that refuses a Decide event with no leaf.
UpdateDecide_RejectEmpty ==
    /\ pc = "start"
    /\ event.kind = "Decide"
    /\ IF Len(event.leaf_chain) = 0
       THEN Return("inconsistent leaf")
       ELSE pc' = "loop" /\ result' = result
    /\ UNCHANGED <<store, conn, last, event, k, calls, logged>>

\* Line 69, a Decide event: build the iterators and enter the loop.
UpdateDecide ==
    /\ pc = "start"
    /\ event.kind = "Decide"
    /\ pc' = "loop"
    /\ UNCHANGED <<store, conn, last, event, k, calls, logged, result>>

\* The zip is exhausted: line 124.
UpdateReturn ==
    /\ pc = "loop"
    /\ k > Len(Pairs(event))
    /\ Return("Ok")
    /\ UNCHANGED <<store, conn, last, event, k, calls, logged>>

\* The connection whose open write transaction update works in: `self` of
\* update, line 68.
Caller == 1

\* What an insert leaves in the transaction.
RecordOf(call) == [op |-> call.op, arg |-> call.arg]

\* The inserts just made that returned Ok are pending in the transaction of
\* the caller; an insert that returned an error leaves nothing.
Stage ==
    conn' = [conn EXCEPT ![Caller].staged =
                @ \cup { RecordOf(calls'[i]) :
                           i \in { j \in (Len(calls) + 1)..Len(calls') :
                                       calls'[j].ok } }]

\* InconsistentLeaf that logs and goes on with the next pair.
InconsistentLeaf_Skip ==
    /\ pc = "loop"
    /\ k <= Len(Pairs(event))
    /\ ~LeafConsistent(CurLeaf, CurQc)
    /\ logged' = Append(logged, [msg   |-> "inconsistent leaf",
                                 block |-> CurLeaf.block_header.block_number])
    /\ k' = k + 1
    /\ UNCHANGED <<store, conn, last, event, pc, calls, result>>

\* InconsistentLeaf that reverts the transaction before it returns the error.
InconsistentLeaf_Revert ==
    /\ pc = "loop"
    /\ k <= Len(Pairs(event))
    /\ ~LeafConsistent(CurLeaf, CurQc)
    /\ Return("inconsistent leaf")
    /\ conn' = [conn EXCEPT ![Caller] = [mode |-> "idle", snap |-> {}, staged |-> {}]]
    /\ UNCHANGED <<store, last, event, k, calls, logged>>

\* Line 88: LeafQueryData::new fails, `?` returns with the context.
InconsistentLeaf ==
    /\ pc = "loop"
    /\ k <= Len(Pairs(event))
    /\ ~LeafConsistent(CurLeaf, CurQc)
    /\ Return("inconsistent leaf")
    /\ UNCHANGED <<store, conn, last, event, k, calls, logged>>

\* InsertLeaf that makes the insert a second time when it failed, and goes on.
InsertLeaf_Retry(ok) ==
    /\ pc = "loop"
    /\ k <= Len(Pairs(event))
    /\ LeafConsistent(CurLeaf, CurQc)
    /\ calls' = calls \o
          (IF ok THEN << >>
                 ELSE << [op  |-> "insert_leaf",
                          arg |-> LeafQueryData(CurLeaf, CurQc),
                          ok  |-> FALSE] >>) \o
          << [op  |-> "insert_leaf",
              arg |-> LeafQueryData(CurLeaf, CurQc),
              ok  |-> TRUE] >>
    /\ pc' = "vid"
    /\ Stage
    /\ UNCHANGED <<store, last, event, k, logged, result>>

\* Lines 87-89: self.insert_leaf(leaf_data.clone()).await?
InsertLeaf(ok) ==
    /\ pc = "loop"
    /\ k <= Len(Pairs(event))
    /\ LeafConsistent(CurLeaf, CurQc)
    /\ calls' = Append(calls, [op  |-> "insert_leaf",
                               arg |-> LeafQueryData(CurLeaf, CurQc),
                               ok  |-> ok])
    /\ IF ok THEN pc' = "vid" /\ result' = result
             ELSE Return("insert_leaf failed")
    /\ Stage
    /\ UNCHANGED <<store, last, event, k, logged>>

\* InsertVid that stores the payload of the leaf before its share.
InsertVid_AfterBlock(ok) ==
    /\ pc = "vid"
    /\ IsSome(CurInfo.vid_share)
    /\ calls' = calls \o
          (IF IsSome(CurLeaf.block_payload)
           THEN << [op  |-> "insert_block",
                    arg |-> BlockQueryData(CurLeaf.block_header,
                                           Unwrap(CurLeaf.block_payload)),
                    ok  |-> TRUE] >>
           ELSE << >>) \o
          << [op  |-> "insert_vid",
              arg |-> [common |-> VidCommonQueryData(CurLeaf.block_header,
                                      Unwrap(CurInfo.vid_share).common),
                       share  |-> Some(Unwrap(CurInfo.vid_share).share)],
              ok  |-> ok] >>
    /\ IF ok THEN pc' = "loop" /\ k' = k + 1 /\ result' = result
             ELSE Return("insert_vid failed") /\ k' = k
    /\ Stage
    /\ UNCHANGED <<store, last, event, logged>>

\* Lines 91-99: the leaf carries a share, self.insert_vid(..).await?
InsertVid(ok) ==
    /\ pc = "vid"
    /\ IsSome(CurInfo.vid_share)
    /\ calls' = Append(calls,
          [op  |-> "insert_vid",
           arg |-> [common |-> VidCommonQueryData(CurLeaf.block_header,
                                   Unwrap(CurInfo.vid_share).common),
                    share  |-> Some(Unwrap(CurInfo.vid_share).share)],
           ok  |-> ok])
    /\ IF ok THEN pc' = "block" /\ result' = result
             ELSE Return("insert_vid failed")
    /\ Stage
    /\ UNCHANGED <<store, last, event, k, logged>>

\* vid_scheme(GENESIS_VID_NUM_STORAGE_NODES).disperse(bytes), line 136, of the
\* encoded empty payload: an error, or the dispersal with its commitment,
\* common data and one share per storage node.
DisperseResults ==
    { None,
      Some([commit |-> EmptyCommit,
            common |-> <<"genesis_common">>,
            shares |-> [j \in 1..NumStorageNodes |-> <<"genesis_share", j>>]]) }

\* shares.remove(0): the first element
RemoveFirst(shares) == Head(shares)

\* GenesisCalls without the comparison of the commitments, line 137.
GenesisCalls_NoCompare(leaf, d, ok) ==
    IF IsSome(d)
    THEN << [op  |-> "insert_vid",
             arg |-> [common |-> VidCommonQueryData(leaf.block_header,
                                     Unwrap(d).common),
                      share  |-> Some(Head(Unwrap(d).shares))],
             ok  |-> ok] >>
    ELSE << >>

\* store_genesis_vid, lines 128-159: what it appends to calls and to logged
\* for the dispersal result d and the outcome ok of the insert it may issue.
GenesisCalls(leaf, d, ok) ==
    IF IsSome(d) /\ Unwrap(d).commit = leaf.block_header.payload_commitment
    THEN << [op  |-> "insert_vid",
             arg |-> [common |-> VidCommonQueryData(leaf.block_header,
                                     Unwrap(d).common),
                      share  |-> Some(RemoveFirst(Unwrap(d).shares))],
             ok  |-> ok] >>
    ELSE << >>

GenesisLogs(leaf, d, ok) ==
    IF ~IsSome(d)
    THEN << [msg   |-> "unable to compute VID dispersal for genesis block",
             block |-> leaf.block_header.block_number] >>
    ELSE IF Unwrap(d).commit # leaf.block_header.payload_commitment
    THEN << [msg   |-> "computed VID commit for genesis block does not match header",
             block |-> leaf.block_header.block_number] >>
    ELSE IF ~ok
    THEN << [msg   |-> "unable to store genesis VID",
             block |-> leaf.block_header.block_number] >>
    ELSE << >>

\* StoreGenesisVid that returns the failure of its insert_vid to the caller.
StoreGenesisVid_Propagate(d, ok) ==
    /\ pc = "vid"
    /\ ~IsSome(CurInfo.vid_share)
    /\ CurLeaf.view_number = 0
    /\ calls' = calls \o GenesisCalls(CurLeaf, d, ok)
    /\ logged' = logged \o GenesisLogs(CurLeaf, d, ok)
    /\ IF GenesisCalls(CurLeaf, d, ok) # << >> /\ ~ok
       THEN Return("insert_vid failed")
       ELSE pc' = "block" /\ result' = result
    /\ Stage
    /\ UNCHANGED <<store, last, event, k>>

\* StoreGenesisVid that is entered for every leaf of view 0, with or without
\* a share.
StoreGenesisVid_AnyShare(d, ok) ==
    /\ pc = "vid"
    /\ CurLeaf.view_number = 0
    /\ calls' = calls \o GenesisCalls(CurLeaf, d, ok)
    /\ logged' = logged \o GenesisLogs(CurLeaf, d, ok)
    /\ pc' = "block"
    /\ Stage
    /\ UNCHANGED <<store, last, event, k, result>>

\* Lines 100-105: no share and view 0, store_genesis_vid(self, leaf).await;
\* it returns nothing, and update goes on to the payload.
StoreGenesisVid(d, ok) ==
    /\ pc = "vid"
    /\ ~IsSome(CurInfo.vid_share)
    /\ CurLeaf.view_number = 0
    /\ calls' = calls \o GenesisCalls(CurLeaf, d, ok)
    /\ logged' = logged \o GenesisLogs(CurLeaf, d, ok)
    /\ pc' = "block"
    /\ Stage
    /\ UNCHANGED <<store, last, event, k, result>>

\* VidMissing that returns a failure instead of going on.
VidMissing_Fatal ==
    /\ pc = "vid"
    /\ ~IsSome(CurInfo.vid_share)
    /\ CurLeaf.view_number # 0
    /\ Return("insert_vid failed")
    /\ UNCHANGED <<store, conn, last, event, k, calls, logged>>

\* Lines 106-111: no share, not view 0: log and go on.
VidMissing ==
    /\ pc = "vid"
    /\ ~IsSome(CurInfo.vid_share)
    /\ CurLeaf.view_number # 0
    /\ logged' = Append(logged, [msg   |-> "VID info not available at decide",
                                 block |-> CurLeaf.block_header.block_number])
    /\ pc' = "block"
    /\ UNCHANGED <<store, conn, last, event, k, calls, result>>

\* InsertBlock that drops the error of insert_block and goes on.
InsertBlock_Swallow(ok) ==
    /\ pc = "block"
    /\ IsSome(CurLeaf.block_payload)
    /\ calls' = Append(calls,
          [op  |-> "insert_block",
           arg |-> BlockQueryData(CurLeaf.block_header,
                                  Unwrap(CurLeaf.block_payload)),
           ok  |-> ok])
    /\ pc' = "loop"
    /\ k' = k + 1
    /\ Stage
    /\ UNCHANGED <<store, last, event, logged, result>>

\* InsertBlock that writes the payload through to the storage at once
\* instead of leaving it pending in the transaction.
InsertBlock_WriteThrough(ok) ==
    /\ pc = "block"
    /\ IsSome(CurLeaf.block_payload)
    /\ calls' = Append(calls,
          [op  |-> "insert_block",
           arg |-> BlockQueryData(CurLeaf.block_header,
                                  Unwrap(CurLeaf.block_payload)),
           ok  |-> ok])
    /\ IF ok THEN pc' = "loop" /\ k' = k + 1 /\ result' = result
             ELSE Return("insert_block failed") /\ k' = k
    /\ Stage
    /\ store' = IF ok THEN store \cup {RecordOf(calls'[Len(calls')])} ELSE store
    /\ UNCHANGED <<last, event, logged>>

\* Lines 113-115: self.insert_block(..).await?, then the next pair.
InsertBlock(ok) ==
    /\ pc = "block"
    /\ IsSome(CurLeaf.block_payload)
    /\ calls' = Append(calls,
          [op  |-> "insert_block",
           arg |-> BlockQueryData(CurLeaf.block_header,
                                  Unwrap(CurLeaf.block_payload)),
           ok  |-> ok])
    /\ IF ok THEN pc' = "loop" /\ k' = k + 1 /\ result' = result
             ELSE Return("insert_block failed") /\ k' = k
    /\ Stage
    /\ UNCHANGED <<store, last, event, logged>>

\* BlockMissing that returns a failure instead of going on.
BlockMissing_Fatal ==
    /\ pc = "block"
    /\ ~IsSome(CurLeaf.block_payload)
    /\ Return("insert_block failed")
    /\ UNCHANGED <<store, conn, last, event, k, calls, logged>>

\* Lines 116-121: no payload: log, then the next pair.
BlockMissing ==
    /\ pc = "block"
    /\ ~IsSome(CurLeaf.block_payload)
    /\ logged' = Append(logged, [msg   |-> "block not available at decide",
                                 block |-> CurLeaf.block_header.block_number])
    /\ pc' = "loop"
    /\ k' = k + 1
    /\ UNCHANGED <<store, conn, last, event, calls, result>>

\* update is called once, with any event of the model.
UpdateInit ==
    /\ \/ \E kind \in OtherEventKinds : event = [kind |-> kind]
       \/ \E n \in 0..MaxLen : \E broken \in 0..n :
            \E shapes \in [1..n -> LeafShapes] :
                event = DecideEvent(n, shapes, broken)
    /\ pc = "start"
    /\ k = 1
    /\ calls = << >>
    /\ logged = << >>
    /\ result = "pending"

UpdateNext ==
    \/ UpdateIgnore
    \/ UpdateDecide
    \/ UpdateReturn
    \/ InconsistentLeaf
    \/ \E ok \in BOOLEAN : InsertLeaf(ok)
    \/ \E ok \in BOOLEAN : InsertVid(ok)
    \/ \E d \in DisperseResults : \E ok \in BOOLEAN : StoreGenesisVid(d, ok)
    \/ VidMissing
    \/ \E ok \in BOOLEAN : InsertBlock(ok)
    \/ BlockMissing

(***************************************************************************)
(* VersionedDataSource and Transaction, lines 161-209.  The file declares  *)
(* write, read, commit and revert and documents what they must do; the     *)
(* storage that implements them is elsewhere.  What follows is that        *)
(* contract: every connection to the data source is idle or holds one open *)
(* transaction; a transaction reads the snapshot taken when it was opened  *)
(* together with its own pending inserts.                                  *)
(***************************************************************************)
Conns == 1..MaxConn
Records == 1..MaxRec

IdleConn == [mode |-> "idle", snap |-> {}, staged |-> {}]

\* View that reads the storage as it is now, not the snapshot.
View_Live(c) == store \cup conn[c].staged

\* What a query through the open transaction of connection c returns.
View(c) == conn[c].snap \cup conn[c].staged

\* VersionedDataSource::write, line 182
Write(c) ==
    /\ conn[c].mode = "idle"
    /\ conn' = [conn EXCEPT ![c].mode = "write", ![c].snap = store]
    /\ UNCHANGED <<store, uvars>>
    /\ last' = [op |-> "write", c |-> c, staged |-> {}]

\* VersionedDataSource::read, lines 184-196
Read(c) ==
    /\ conn[c].mode = "idle"
    /\ conn' = [conn EXCEPT ![c].mode = "read", ![c].snap = store]
    /\ UNCHANGED <<store, uvars>>
    /\ last' = [op |-> "read", c |-> c, staged |-> {}]

\* TxInsert that writes the record to the storage at once.
TxInsert_WriteThrough(c, r) ==
    /\ conn[c].mode = "write"
    /\ r \notin conn[c].staged
    /\ conn' = [conn EXCEPT ![c].staged = @ \cup {r}]
    /\ store' = store \cup {r}
    /\ UNCHANGED uvars
    /\ last' = [op |-> "insert", c |-> c, staged |-> {}]

\* An insert through the open write transaction of c: pending until commit.
TxInsert(c, r) ==
    /\ conn[c].mode = "write"
    /\ r \notin conn[c].staged
    /\ conn' = [conn EXCEPT ![c].staged = @ \cup {r}]
    /\ UNCHANGED <<store, uvars>>
    /\ last' = [op |-> "insert", c |-> c, staged |-> {}]

\* Commit that writes the inserts back and leaves the transaction open.
Commit_KeepOpen(c) ==
    /\ conn[c].mode \in {"write", "read"}
    /\ store' = store \cup conn[c].staged
    /\ conn' = [conn EXCEPT ![c].staged = {}]
    /\ UNCHANGED uvars
    /\ last' = [op |-> "commit", c |-> c, staged |-> conn[c].staged]

\* Transaction::commit, line 207, returning Ok: the pending inserts are
\* written back to storage, merged with what was committed meanwhile.
Commit(c) ==
    /\ conn[c].mode \in {"write", "read"}
    /\ store' = store \cup conn[c].staged
    /\ conn' = [conn EXCEPT ![c] = IdleConn]
    /\ UNCHANGED uvars
    /\ last' = [op |-> "commit", c |-> c, staged |-> conn[c].staged]

\* CommitFail that reports the error after the inserts were written back.
CommitFail_WritesBack(c) ==
    /\ conn[c].mode = "write"
    /\ store' = store \cup conn[c].staged
    /\ conn' = [conn EXCEPT ![c] = IdleConn]
    /\ UNCHANGED uvars
    /\ last' = [op |-> "commit failed", c |-> c, staged |-> conn[c].staged]

\* Transaction::commit returning Err: nothing is written back.
CommitFail(c) ==
    /\ conn[c].mode = "write"
    /\ conn' = [conn EXCEPT ![c] = IdleConn]
    /\ UNCHANGED <<store, uvars>>
    /\ last' = [op |-> "commit failed", c |-> c, staged |-> conn[c].staged]

\* Revert that closes the transaction and leaves its inserts pending on the
\* connection.
Revert_KeepStaged(c) ==
    /\ conn[c].mode \in {"write", "read"}
    /\ conn' = [conn EXCEPT ![c].mode = "idle"]
    /\ last' = [op |-> "revert", c |-> c, staged |-> conn[c].staged]
    /\ UNCHANGED <<store, uvars>>

\* Transaction::revert, line 208: the pending inserts are dropped.
Revert(c) ==
    /\ conn[c].mode \in {"write", "read"}
    /\ conn' = [conn EXCEPT ![c] = IdleConn]
    /\ UNCHANGED <<store, uvars>>
    /\ last' = [op |-> "revert", c |-> c, staged |-> conn[c].staged]

\* The process restarts and reopens its storage: what was not committed is
\* lost (lines 165-167).
Restart ==
    /\ \E c \in Conns : conn[c].mode # "idle"
    /\ conn' = [c \in Conns |-> IdleConn]
    /\ UNCHANGED <<store, uvars>>
    /\ last' = [op |-> "restart", c |-> 0, staged |-> {}]

TxInit ==
    /\ last = [op |-> "none", c |-> 0, staged |-> {}]
    /\ store = {}
    /\ conn = [c \in Conns |-> IdleConn]

TxNext ==
    \/ \E c \in Conns : Write(c)
    \/ \E c \in Conns : Read(c)
    \/ \E c \in Conns : \E r \in Records : TxInsert(c, r)
    \/ \E c \in Conns : Commit(c)
    \/ \E c \in Conns : CommitFail(c)
    \/ \E c \in Conns : Revert(c)
    \/ Restart

vars == <<event, pc, k, calls, logged, result, store, conn, last>>

\* The caller has opened a write transaction on its connection, on empty
\* storage, and no other connection has a transaction.
CallerInit ==
    /\ last = [op |-> "write", c |-> Caller, staged |-> {}]
    /\ store = {}
    /\ conn = [c \in Conns |->
                 IF c = Caller THEN [mode |-> "write", snap |-> {}, staged |-> {}]
                               ELSE IdleConn]

\* One call of update in the open write transaction of the caller, while no
\* other connection does anything.
Init == UpdateInit /\ CallerInit
Next == UpdateNext
Spec == Init /\ [][Next]_vars

\* The transactions of the connections, with no update running.
UpdateIdle ==
    /\ event = [kind |-> "ViewFinished"]
    /\ pc = "done"
    /\ k = 1
    /\ calls = << >>
    /\ logged = << >>
    /\ result = "Ok"
InitTx == UpdateIdle /\ TxInit
NextTx == TxNext
SpecTx == InitTx /\ [][NextTx]_vars

(***************************************************************************)
(* The caller of update and the other connections.  The caller runs one    *)
(* update in its write transaction and then commits it if update returned  *)
(* Ok and reverts it if update returned an error; meanwhile the other      *)
(* connections open, fill, commit and revert transactions of their own.    *)
(***************************************************************************)
\* The other connection that is at work during the update.
Other == CHOOSE c \in Conns : c # Caller

\* What the other connection inserts: not a record of the event.
OtherRecords == { [other |-> "record"] }

CallerCommit ==
    /\ pc = "done"
    /\ result = "Ok"
    /\ Commit(Caller)

CallerCommitFail ==
    /\ pc = "done"
    /\ result = "Ok"
    /\ CommitFail(Caller)

CallerRevert ==
    /\ pc = "done"
    /\ result # "Ok"
    /\ Revert(Caller)

InitCaller == UpdateInit /\ CallerInit

NextCaller ==
    \/ UpdateNext
    \/ CallerCommit
    \/ CallerCommitFail
    \/ CallerRevert
    \/ Write(Other)
    \/ Read(Other)
    \/ \E r \in OtherRecords : TxInsert(Other, r)
    \/ Commit(Other)
    \/ CommitFail(Other)
    \/ Revert(Other)

SpecCaller == InitCaller /\ [][NextCaller]_vars

(***************************************************************************)
(* What the claims speak of, read off the event and the calls directly.    *)
(***************************************************************************)
IsDecide == event.kind = "Decide"
\* Number of leaves of the chain; the leaf at chronological position j
\* (1 the oldest); the leaves oldest first.
N == Len(event.leaf_chain)
Chrono(j) == event.leaf_chain[N + 1 - j]
ChronoSeq == [j \in 1..N |-> Chrono(j)]
\* The certificate the claims pair with the leaf at chronological position j:
\* the event's qc for the newest leaf, else the justify_qc of the next newer.
ExpectedQc(j) == IF j = N THEN event.qc ELSE Chrono(j + 1).leaf.justify_qc
PairInconsistent(j) ==
    ExpectedQc(j).leaf_commit # Chrono(j).leaf.block_header.block_number
AllConsistent == \A j \in 1..N : ~PairInconsistent(j)

CallsOf(op) == SelectSeq(calls, LAMBDA c : c.op = op)
LeafCalls == CallsOf("insert_leaf")
VidCalls == CallsOf("insert_vid")
BlockCalls == CallsOf("insert_block")
\* The header a call is about, and the insert_vid calls about header h.
HeaderOf(c) ==
    IF c.op = "insert_leaf" THEN c.arg.leaf.block_header
    ELSE IF c.op = "insert_vid" THEN c.arg.common.header
    ELSE c.arg.header
CallsAbout(op, h) == SelectSeq(calls, LAMBDA c : c.op = op /\ HeaderOf(c) = h)
\* The insert_vid issued by store_genesis_vid stores the computed dispersal.
IsGenesisVid(c) ==
    c.op = "insert_vid" /\ c.arg.common.common = <<"genesis_common">>
AllCallsOk == \A j \in 1..Len(calls) : calls[j].ok
Done == pc = "done"
Failures == {"inconsistent leaf", "insert_leaf failed", "insert_vid failed",
             "insert_block failed"}
FailureOf(op) ==
    IF op = "insert_leaf" THEN "insert_leaf failed"
    ELSE IF op = "insert_vid" THEN "insert_vid failed"
    ELSE "insert_block failed"
\* The loop is at the pair of position k (it has not run off the chain).
AtPair == pc \in {"vid", "block"} \/ (pc = "loop" /\ k <= N)
LoggedFor(msg, h) ==
    \E j \in 1..Len(logged) :
        logged[j] = [msg |-> msg, block |-> h.block_number]

NoFatalCallFailed ==
    \A j \in 1..Len(calls) : ~calls[j].ok => IsGenesisVid(calls[j])
WithPayload == SelectSeq(ChronoSeq, LAMBDA li : IsSome(li.leaf.block_payload))
\* update has run the dispersal step of the leaf at position j.
PastVid(j) ==
    \/ k > j
    \/ k = j /\ pc = "block"
    \/ k = j /\ result = "insert_block failed"
IsGenesisCase(j) ==
    Chrono(j).leaf.view_number = 0 /\ ~IsSome(Chrono(j).vid_share)
ViewsDecreasing ==
    \A j \in 1..(N - 1) :
        event.leaf_chain[j].leaf.view_number
            > event.leaf_chain[j + 1].leaf.view_number

(***************************************************************************)
(* C1.  update pairs the newest leaf with the event's qc and every other   *)
(* leaf with the justify_qc of the leaf one position newer: the pair the   *)
(* loop is at, every leaf record handed to insert_leaf and an inconsistent *)
(* leaf failure are all about that pairing, and the justify_qc of the      *)
(* oldest leaf is paired with no leaf.                                     *)
(***************************************************************************)
C1_Pairing ==
    IsDecide =>
        /\ AtPair => CurQc = ExpectedQc(k) /\ CurInfo = Chrono(k)
        /\ Len(LeafCalls) <= N
        /\ \A j \in 1..Len(LeafCalls) :
              LeafCalls[j].arg = [leaf |-> Chrono(j).leaf, qc |-> ExpectedQc(j)]
        /\ result = "inconsistent leaf" => k <= N /\ PairInconsistent(k)
        /\ N >= 1 =>
              /\ AtPair => CurQc # Chrono(1).leaf.justify_qc
              /\ \A j \in 1..Len(LeafCalls) :
                    LeafCalls[j].arg.qc # Chrono(1).leaf.justify_qc

C1_Witness ==
    /\ IsDecide /\ N = 2 /\ Done
    /\ Len(LeafCalls) = 2
    /\ LeafCalls[1].arg.qc = event.leaf_chain[1].leaf.justify_qc
    /\ LeafCalls[2].arg.qc = event.qc

(***************************************************************************)
(* C2.  When no pair is inconsistent and no insert fails, update issues    *)
(* exactly one insert_leaf per leaf, in the reverse of the input order     *)
(* (oldest first); the leaves inserted at any moment are the oldest ones   *)
(* in that order; and if the views strictly decrease along the input chain *)
(* the inserted leaves have strictly increasing views.                     *)
(***************************************************************************)
C2_ChronologicalInserts ==
    IsDecide =>
        /\ Len(LeafCalls) <= N
        /\ \A j \in 1..Len(LeafCalls) :
              LeafCalls[j].arg.leaf = event.leaf_chain[N + 1 - j].leaf
        /\ (Done /\ AllConsistent /\ AllCallsOk) =>
              /\ Len(LeafCalls) = N
              /\ ViewsDecreasing =>
                    \A j \in 1..(N - 1) :
                        LeafCalls[j].arg.leaf.view_number
                            < LeafCalls[j + 1].arg.leaf.view_number

C2_Witness ==
    /\ IsDecide /\ N = 2 /\ Done /\ AllCallsOk /\ ViewsDecreasing
    /\ Len(LeafCalls) = 2
    /\ LeafCalls[1].arg.leaf.view_number < LeafCalls[2].arg.leaf.view_number

(***************************************************************************)
(* C3 as stated: if the pair at chronological position j is inconsistent,  *)
(* update returns the inconsistent leaf failure and issues no insert for   *)
(* the leaf at j or a newer one.                                           *)
(***************************************************************************)
C3_AsStated ==
    (IsDecide /\ Done) =>
        \A j \in 1..N : PairInconsistent(j) =>
            /\ result = "inconsistent leaf"
            /\ \A i \in 1..Len(calls) : HeaderOf(calls[i]).block_number < j
            /\ j = 1 => calls = << >>

(***************************************************************************)
(* C3, amended.  If the pair at chronological position j is inconsistent,  *)
(* update never returns success, hands insert_leaf only records whose      *)
(* certificate names their leaf, and issues no insert for the leaf at j or *)
(* a newer one; it returns the inconsistent leaf failure unless an insert  *)
(* for an older leaf failed first, and then it returns that failure; when  *)
(* j is the oldest leaf it issues no insert and returns the inconsistent   *)
(* leaf failure.                                                           *)
(***************************************************************************)
C3_InconsistentLeaf ==
    IsDecide =>
        \A j \in 1..N : PairInconsistent(j) =>
            /\ \A i \in 1..Len(calls) : HeaderOf(calls[i]).block_number < j
            /\ \A i \in 1..Len(LeafCalls) :
                  LeafCalls[i].arg.qc.leaf_commit
                      = LeafCalls[i].arg.leaf.block_header.block_number
            /\ Done => result \in Failures
            /\ (Done /\ NoFatalCallFailed) => result = "inconsistent leaf"
            /\ (Done /\ ~NoFatalCallFailed) =>
                  /\ ~calls[Len(calls)].ok
                  /\ result = FailureOf(calls[Len(calls)].op)
            /\ j = 1 => calls = << >> /\ (Done => result = "inconsistent leaf")

C3_Witness ==
    /\ IsDecide /\ N = 2 /\ Done
    /\ PairInconsistent(2)
    /\ result = "inconsistent leaf"
    /\ Len(LeafCalls) = 1

(***************************************************************************)
(* C4 as stated: once update has returned, every insert that failed during *)
(* the call is the failure it returned.                                    *)
(***************************************************************************)
C4_AsStated ==
    Done =>
        \A j \in 1..Len(calls) :
            ~calls[j].ok => result = FailureOf(calls[j].op)

(***************************************************************************)
(* C4, amended.  A failing insert_leaf, insert_block or insert_vid of a    *)
(* share the leaf carries (a leaf of view 0 included) ends the call: it is *)
(* the last insert issued and update returns that failure.  A failing      *)
(* insert_vid issued by store_genesis_vid is logged and not returned.      *)
(***************************************************************************)
C4_StorageFailureFatal ==
    \A j \in 1..Len(calls) :
        ~calls[j].ok =>
            IF IsGenesisVid(calls[j])
            THEN LoggedFor("unable to store genesis VID", HeaderOf(calls[j]))
            ELSE /\ j = Len(calls)
                 /\ Done
                 /\ result = FailureOf(calls[j].op)

C4_Witness ==
    /\ IsDecide /\ Done /\ N = 2 /\ k = 2
    /\ result = "insert_vid failed"
    /\ Chrono(2).leaf.view_number = 0
    /\ ~calls[Len(calls)].ok

(***************************************************************************)
(* C5.  When some leaves carry no payload, no pair is inconsistent and no  *)
(* insert fails, update returns Ok, has issued insert_leaf for every leaf, *)
(* insert_block for exactly the leaves with a payload (header and payload  *)
(* of the leaf, oldest first) and insert_vid for every share received.     *)
(***************************************************************************)
C5_MissingPayload ==
    (/\ IsDecide /\ Done /\ AllConsistent /\ AllCallsOk
     /\ \E j \in 1..N : ~IsSome(Chrono(j).leaf.block_payload)) =>
        /\ result = "Ok"
        /\ Len(LeafCalls) = N
        /\ Len(BlockCalls) = Len(WithPayload)
        /\ \A j \in 1..Len(BlockCalls) :
              BlockCalls[j].arg =
                  [header  |-> WithPayload[j].leaf.block_header,
                   payload |-> WithPayload[j].leaf.block_payload[1]]
        /\ \A j \in 1..N :
              /\ ~IsSome(Chrono(j).leaf.block_payload) =>
                    CallsAbout("insert_block", Chrono(j).leaf.block_header) = << >>
              /\ IsSome(Chrono(j).vid_share) =>
                    Len(CallsAbout("insert_vid", Chrono(j).leaf.block_header)) = 1

C5_Witness ==
    /\ IsDecide /\ N = 2 /\ Done /\ AllCallsOk /\ result = "Ok"
    /\ ~IsSome(Chrono(1).leaf.block_payload)
    /\ IsSome(Chrono(2).leaf.block_payload)
    /\ IsSome(Chrono(2).vid_share)
    /\ Len(LeafCalls) = 2
    /\ Len(BlockCalls) = 1
    /\ HeaderOf(BlockCalls[1]) = Chrono(2).leaf.block_header
    /\ Len(CallsAbout("insert_vid", Chrono(2).leaf.block_header)) = 1

(***************************************************************************)
(* C6.  For a leaf of a view other than 0 that carries no share, update    *)
(* issues no insert_vid; when no pair is inconsistent and no insert fails  *)
(* it still inserts that leaf's payload (if any) and every later leaf and  *)
(* returns Ok; and a failure update returns is an inconsistent leaf or a   *)
(* failed insert, never the absence.                                       *)
(***************************************************************************)
C6_MissingShare ==
    IsDecide =>
        \A j \in 1..N :
            (Chrono(j).leaf.view_number # 0 /\ ~IsSome(Chrono(j).vid_share)) =>
                /\ CallsAbout("insert_vid", Chrono(j).leaf.block_header) = << >>
                /\ (Done /\ AllConsistent /\ AllCallsOk) =>
                      /\ result = "Ok"
                      /\ IsSome(Chrono(j).leaf.block_payload) =>
                            Len(CallsAbout("insert_block",
                                           Chrono(j).leaf.block_header)) = 1
                      /\ \A i \in (j + 1)..N :
                            Len(CallsAbout("insert_leaf",
                                           Chrono(i).leaf.block_header)) = 1
                /\ (Done /\ result # "Ok") =>
                      \/ result = "inconsistent leaf" /\ PairInconsistent(k)
                      \/ calls # << >> /\ ~calls[Len(calls)].ok

C6_Witness ==
    /\ IsDecide /\ N = 2 /\ Done /\ result = "Ok"
    /\ Chrono(1).leaf.view_number # 0
    /\ ~IsSome(Chrono(1).vid_share)
    /\ IsSome(Chrono(1).leaf.block_payload)
    /\ Len(CallsAbout("insert_block", Chrono(1).leaf.block_header)) = 1
    /\ Len(CallsAbout("insert_leaf", Chrono(2).leaf.block_header)) = 1
    /\ LoggedFor("VID info not available at decide", Chrono(1).leaf.block_header)

(***************************************************************************)
(* C7.  For a leaf of view 0 without share, store_genesis_vid issues at    *)
(* most one insert_vid; it issues one exactly when the dispersal was       *)
(* computed and its commitment is the payload commitment of the header,    *)
(* and then stores the computed common data with the first computed share; *)
(* on a mismatch or a failed computation nothing is stored.                *)
(***************************************************************************)
C7_GenesisVid ==
    IsDecide =>
        \A j \in 1..N : IsGenesisCase(j) =>
            LET h == Chrono(j).leaf.block_header
                vc == CallsAbout("insert_vid", h)
                failed == LoggedFor("unable to compute VID dispersal for genesis block", h)
                mismatch == LoggedFor("computed VID commit for genesis block does not match header", h)
            IN  /\ Len(vc) <= 1
                /\ Len(vc) = 1 =>
                      /\ vc[1].arg =
                            [common |-> [header |-> h,
                                         common |-> <<"genesis_common">>],
                             share  |-> << <<"genesis_share", 1>> >>]
                      /\ h.payload_commitment = EmptyCommit
                      /\ ~failed /\ ~mismatch
                /\ h.payload_commitment # EmptyCommit => vc = << >>
                /\ (failed \/ mismatch) => vc = << >>
                /\ mismatch => h.payload_commitment # EmptyCommit
                /\ PastVid(j) =>
                      (Len(vc) = 1 <=>
                          (h.payload_commitment = EmptyCommit /\ ~failed))

C7_Witness ==
    /\ IsDecide /\ N >= 1 /\ IsGenesisCase(1) /\ PastVid(1)
    /\ Len(CallsAbout("insert_vid", Chrono(1).leaf.block_header)) = 1
    /\ CallsAbout("insert_vid", Chrono(1).leaf.block_header)[1].ok

(***************************************************************************)
(* C8.  No outcome of store_genesis_vid stops update or changes what it    *)
(* returns: right after a failed store of the genesis record update is at  *)
(* the payload of the same leaf and has not returned; if no pair is        *)
(* inconsistent and no other insert fails, update returns Ok with every    *)
(* leaf and every payload inserted; and a storage failure update returns   *)
(* is that of its last insert, which is not the genesis one.               *)
(***************************************************************************)
C8_GenesisNeverStops ==
    IsDecide =>
        /\ (/\ calls # << >> /\ logged # << >>
            /\ IsGenesisVid(calls[Len(calls)]) /\ ~calls[Len(calls)].ok
            /\ logged[Len(logged)] =
                  [msg   |-> "unable to store genesis VID",
                   block |-> HeaderOf(calls[Len(calls)]).block_number])
              => /\ pc = "block"
                 /\ result = "pending"
                 /\ k = HeaderOf(calls[Len(calls)]).block_number
        /\ (Done /\ AllConsistent /\ NoFatalCallFailed) =>
              /\ result = "Ok"
              /\ Len(LeafCalls) = N
              /\ Len(BlockCalls) = Len(WithPayload)
        /\ (Done /\ result \in Failures \ {"inconsistent leaf"}) =>
              /\ ~calls[Len(calls)].ok
              /\ ~IsGenesisVid(calls[Len(calls)])
              /\ result = FailureOf(calls[Len(calls)].op)

C8_Witness ==
    /\ IsDecide /\ N = 2 /\ Done /\ result = "Ok"
    /\ IsGenesisCase(1)
    /\ \E j \in 1..Len(calls) :
          /\ IsGenesisVid(calls[j]) /\ ~calls[j].ok
          /\ HeaderOf(calls[j]) = Chrono(1).leaf.block_header
    /\ Len(CallsAbout("insert_block", Chrono(1).leaf.block_header)) = 1
    /\ Len(CallsAbout("insert_leaf", Chrono(2).leaf.block_header)) = 1

(***************************************************************************)
(* C9.  Snapshot isolation.  A read-only transaction, when opened, reads   *)
(* exactly what is committed at that moment; what it reads never changes   *)
(* while it stays open, whatever is committed meanwhile; a commit puts its *)
(* inserts into the storage and nothing is ever removed from the storage,  *)
(* so every read-only transaction opened later reads them.                 *)
(***************************************************************************)
C9_SnapshotIsolation ==
    [][/\ \A c \in Conns :
             (conn[c].mode = "idle" /\ conn'[c].mode = "read") =>
                 View(c)' = store /\ store' = store
       /\ \A c \in Conns :
             (conn[c].mode = "read" /\ conn'[c].mode = "read") =>
                 View(c)' = View(c)
       /\ \A w \in Conns : Commit(w) => conn[w].staged \subseteq store'
       /\ store \subseteq store'
      ]_vars

\* A read-only transaction opened before a commit still reads the old data
\* while another, opened after it, reads the committed inserts.
C9_Witness ==
    \E c, d \in Conns :
        /\ conn[c].mode = "read" /\ conn[d].mode = "read"
        /\ store # {}
        /\ View(c) = {}
        /\ View(d) = store

(***************************************************************************)
(* C10 as stated: after a write transaction is reverted the storage is in  *)
(* the state it had when the transaction was opened.                       *)
(***************************************************************************)
C10_AsStated ==
    [][\A c \in Conns :
         (Revert(c) /\ conn[c].mode = "write") => store' = conn[c].snap]_vars

(***************************************************************************)
(* C10, amended.  A revert drops the pending inserts of its transaction    *)
(* and changes nothing else: the storage is what it was just before the    *)
(* revert (what it was when the transaction opened, together with what     *)
(* other transactions committed since), every other connection and what    *)
(* its transaction reads are untouched, and a transaction opened later, on *)
(* any connection, reads exactly what is committed.                        *)
(***************************************************************************)
C10_Revert ==
    [][/\ \A c \in Conns :
             Revert(c) =>
                 /\ store' = store
                 /\ conn[c].snap \subseteq store'
                 /\ conn'[c].staged = {}
                 /\ \A d \in Conns \ {c} : conn'[d] = conn[d]
       /\ \A c \in Conns :
             (conn[c].mode = "idle" /\ conn'[c].mode # "idle") =>
                 View(c)' = store
      ]_vars

\* A write transaction with pending inserts has just been reverted while
\* another transaction is open, and none of its inserts is in the storage.
C10_Witness ==
    /\ last.op = "revert"
    /\ last.staged # {}
    /\ last.staged \cap store = {}
    /\ conn[last.c].mode = "idle"
    /\ \E d \in Conns : conn[d].mode # "idle"


(***************************************************************************)
(* C11.  Read-your-writes and isolation of pending writes.  An insert made *)
(* through an open write transaction is read back through that same        *)
(* transaction, at once and for as long as the transaction stays open; the *)
(* insert changes neither the storage nor any other connection, so no      *)
(* transaction that was already open reads it; and a transaction opened    *)
(* while the insert is pending reads none of the pending inserts of the    *)
(* other connections, except what is committed anyway.                     *)
(***************************************************************************)
C11_PendingWrites ==
    [][/\ \A c \in Conns : \A r \in Records :
             TxInsert(c, r) =>
                 /\ r \in View(c)'
                 /\ store' = store
                 /\ \A d \in Conns \ {c} :
                        conn'[d] = conn[d] /\ View(d)' = View(d)
       /\ \A c \in Conns :
             (conn[c].mode = "write" /\ conn'[c].mode = "write") =>
                 conn[c].staged \subseteq View(c)'
       /\ \A d \in Conns :
             (conn[d].mode = "idle" /\ conn'[d].mode # "idle") =>
                 \A c \in Conns \ {d} :
                     conn[c].mode = "write" =>
                         (View(d)' \cap conn[c].staged) \subseteq store
      ]_vars

\* A write transaction has just inserted a record that is not committed: it
\* reads the record, and neither a transaction opened before the insert nor
\* the storage has it.
C11_Witness ==
    /\ last.op = "insert"
    /\ conn[last.c].mode = "write"
    /\ \E r \in conn[last.c].staged :
          /\ r \in View(last.c)
          /\ r \notin store
          /\ \E d \in Conns \ {last.c} :
                conn[d].mode # "idle" /\ r \notin View(d)


(***************************************************************************)
(* C12.  Commit is all-or-nothing and durable.  The storage changes only   *)
(* in a successful commit, and then by all the pending inserts of that one *)
(* transaction at once; a failed commit, a revert and a restart leave the  *)
(* storage exactly as it was, so that what was committed survives them and *)
(* none of the inserts of a transaction that did not commit is written;    *)
(* after a restart no connection holds pending inserts any more.           *)
(***************************************************************************)
C12_AtomicDurable ==
    [][/\ store' # store =>
             \E c \in Conns :
                 /\ conn[c].mode = "write"
                 /\ last'.op = "commit" /\ last'.c = c
                 /\ store' = store \cup conn[c].staged
       /\ \A c \in Conns : Commit(c) => store' = store \cup conn[c].staged
       /\ \A c \in Conns : CommitFail(c) => store' = store
       /\ \A c \in Conns :
             (last'.op \in {"commit failed", "revert"} /\ last'.c = c
                /\ conn[c].mode = "write" /\ conn'[c].mode = "idle") =>
                 store' = store /\ conn'[c].staged = {}
       /\ Restart =>
             /\ store' = store
             /\ \A c \in Conns : conn'[c].staged = {} /\ conn'[c].mode = "idle"
      ]_vars

\* A commit of pending inserts has just failed, after another transaction
\* committed: none of the pending inserts is in the storage, and what was
\* committed is.
C12_Witness ==
    /\ last.op = "commit failed"
    /\ last.staged # {}
    /\ last.staged \cap store = {}
    /\ store # {}
    /\ conn[last.c] = IdleConn


(***************************************************************************)
(* C13.  A transaction is terminal.  commit and revert take the            *)
(* transaction by value (lines 207-208): each of them is made through an   *)
(* open transaction and leaves its connection with no transaction, and an  *)
(* insert is made through an open write transaction; so a connection whose *)
(* transaction was committed or reverted takes no insert, commit or revert *)
(* until a new transaction is opened on it, and a new transaction starts   *)
(* with no pending insert.                                                 *)
(***************************************************************************)
C13_Terminal ==
    [][\A c \in Conns :
          /\ (last'.c = c
                /\ last'.op \in {"commit", "commit failed", "revert"}) =>
                 /\ conn[c].mode # "idle"
                 /\ conn'[c] = IdleConn
          /\ (conn'[c].staged # conn[c].staged /\ conn'[c].staged # {}) =>
                 /\ conn[c].mode = "write" /\ conn'[c].mode = "write"
                 /\ last'.op = "insert" /\ last'.c = c
          /\ conn[c].mode = "idle" =>
                 \/ conn'[c] = conn[c]
                 \/ /\ conn'[c].mode \in {"write", "read"}
                    /\ conn'[c].staged = {}
                    /\ last'.op \in {"write", "read"} /\ last'.c = c
      ]_vars

\* A write transaction with pending inserts has just been committed: the
\* inserts are in the storage and its connection has no transaction.
C13_Witness ==
    /\ last.op = "commit"
    /\ last.staged # {}
    /\ last.staged \subseteq store
    /\ conn[last.c] = IdleConn


\* The records of the inserts that returned Ok.
OkRecords == { RecordOf(calls[i]) : i \in { j \in 1..Len(calls) : calls[j].ok } }

\* The transaction of the caller, the storage and the other connections are
\* as they were when update was called.
SourceUntouched ==
    /\ conn[Caller] = [mode |-> "write", snap |-> {}, staged |-> {}]
    /\ \A c \in Conns \ {Caller} : conn[c] = IdleConn
    /\ store = {}
    /\ last = [op |-> "write", c |-> Caller, staged |-> {}]

(***************************************************************************)
(* C14.  An event that is not a Decide makes update insert nothing, log    *)
(* nothing and leave the transaction of the caller and the storage as they *)
(* were, and update returns Ok.                                            *)
(***************************************************************************)
C14_OtherEvents ==
    ~IsDecide =>
        /\ calls = << >>
        /\ logged = << >>
        /\ SourceUntouched
        /\ result \in {"pending", "Ok"}
        /\ pc \in {"start", "done"}
        /\ Done <=> result = "Ok"

\* update has returned from an event that is not a Decide.
C14_Witness ==
    /\ ~IsDecide
    /\ Done
    /\ result = "Ok"
    /\ calls = << >>


(***************************************************************************)
(* C15.  update opens, commits and reverts no transaction.  All it does to *)
(* the storage is insert_leaf, insert_vid and insert_block: at every point *)
(* of the call and after it has returned, with Ok or with any error, the   *)
(* write transaction of the caller is still open, the inserts that         *)
(* returned Ok are pending in it, all of them and nothing else, nothing is *)
(* written to the storage and no other connection has a transaction.       *)
(***************************************************************************)
C15_NoTransactionControl ==
    /\ \A i \in 1..Len(calls) :
          calls[i].op \in {"insert_leaf", "insert_vid", "insert_block"}
    /\ conn[Caller].mode = "write"
    /\ conn[Caller].snap = {}
    /\ conn[Caller].staged = OkRecords
    /\ \A c \in Conns \ {Caller} : conn[c] = IdleConn
    /\ store = {}
    /\ last = [op |-> "write", c |-> Caller, staged |-> {}]

\* update has returned an error after some inserts went through: they are
\* pending in the open transaction of the caller.
C15_Witness ==
    /\ Done
    /\ result \in Failures
    /\ OkRecords # {}
    /\ conn[Caller].mode = "write"
    /\ conn[Caller].staged = OkRecords
    /\ ~calls[Len(calls)].ok


\* store_genesis_vid was called for the leaf of header h: it stored the
\* computed dispersal or logged why it did not.
GenesisInvoked(h) ==
    \/ \E i \in 1..Len(calls) : IsGenesisVid(calls[i]) /\ HeaderOf(calls[i]) = h
    \/ LoggedFor("unable to compute VID dispersal for genesis block", h)
    \/ LoggedFor("computed VID commit for genesis block does not match header", h)
    \/ LoggedFor("unable to store genesis VID", h)

\* update has run the dispersal step of the leaf at position j, to its end
\* or to a failed insert_vid.
RanVid(j) == PastVid(j) \/ (k = j /\ result = "insert_vid failed")

(***************************************************************************)
(* C16.  Precedence of the dispersal step.  For a leaf that carries a      *)
(* share, of view 0 or not, update issues insert_vid once, with the        *)
(* received common data and share, and store_genesis_vid is not called;    *)
(* store_genesis_vid is called for exactly the leaves without share and of *)
(* view 0 whose dispersal step has run; and no leaf gets more than one     *)
(* insert_vid in a call of update.                                         *)
(***************************************************************************)
C16_DispersalPrecedence ==
    IsDecide =>
        \A j \in 1..N :
            LET li == Chrono(j)
                h  == li.leaf.block_header
                vc == CallsAbout("insert_vid", h)
            IN  /\ Len(vc) <= 1
                /\ IsSome(li.vid_share) =>
                      /\ ~GenesisInvoked(h)
                      /\ RanVid(j) <=> Len(vc) = 1
                      /\ Len(vc) = 1 =>
                            vc[1].arg =
                               [common |-> [header |-> h,
                                            common |-> Unwrap(li.vid_share).common],
                                share  |-> Some(Unwrap(li.vid_share).share)]
                /\ GenesisInvoked(h) <=>
                      (RanVid(j) /\ ~IsSome(li.vid_share)
                                 /\ li.leaf.view_number = 0)
                /\ (~IsSome(li.vid_share) /\ li.leaf.view_number # 0) =>
                      vc = << >>

\* A leaf of view 0 that carries a share: its received share was stored and
\* store_genesis_vid was not called.
C16_Witness ==
    /\ IsDecide /\ N >= 1 /\ PastVid(1)
    /\ Chrono(1).leaf.view_number = 0
    /\ IsSome(Chrono(1).vid_share)
    /\ Len(CallsAbout("insert_vid", Chrono(1).leaf.block_header)) = 1
    /\ ~IsGenesisVid(CallsAbout("insert_vid", Chrono(1).leaf.block_header)[1])
    /\ ~GenesisInvoked(Chrono(1).leaf.block_header)


\* Place of an insert in the order of one leaf: leaf, dispersal, payload.
Rank(op) ==
    IF op = "insert_leaf" THEN 1 ELSE IF op = "insert_vid" THEN 2 ELSE 3

(***************************************************************************)
(* C17.  The inserts of one call of update are made one after the other,   *)
(* each one finished (its outcome known) before the next is made; of any   *)
(* two of them the earlier is about an older leaf, or about the same leaf  *)
(* and then insert_leaf comes before insert_vid and insert_vid before      *)
(* insert_block; so the inserts of a leaf are together, in that order,     *)
(* and all of them come before the insert_leaf of the next newer leaf;     *)
(* and an insert is followed by another only if it returned Ok or is the   *)
(* one of store_genesis_vid.                                               *)
(***************************************************************************)
C17_Sequenced ==
    IsDecide =>
        /\ \A a, b \in 1..Len(calls) :
              a < b =>
                 LET ha == HeaderOf(calls[a]).block_number
                     hb == HeaderOf(calls[b]).block_number
                 IN  \/ ha < hb
                     \/ ha = hb /\ Rank(calls[a].op) < Rank(calls[b].op)
        /\ \A a \in 1..Len(calls) :
              /\ \E j \in 1..N :
                    HeaderOf(calls[a]) = Chrono(j).leaf.block_header
              /\ calls[a].op # "insert_leaf" =>
                    /\ a > 1
                    /\ HeaderOf(calls[a - 1]) = HeaderOf(calls[a])
              /\ (a < Len(calls) /\ ~calls[a].ok) => IsGenesisVid(calls[a])
        /\ \A a \in 1..Len(calls) :
              (pc = "vid" /\ a = Len(calls)) => calls[a].op = "insert_leaf"

\* Two leaves, each with share and payload: six inserts, three for the
\* older leaf and then three for the newer.
C17_Witness ==
    /\ IsDecide /\ N = 2 /\ Done /\ result = "Ok"
    /\ Len(calls) = 6
    /\ \A i \in 1..3 : HeaderOf(calls[i]) = Chrono(1).leaf.block_header
    /\ \A i \in 4..6 : HeaderOf(calls[i]) = Chrono(2).leaf.block_header


\* The inserts update makes for the leaf at position j when no insert fails:
\* the leaf, the received share or (genesis = TRUE, for a leaf of view 0
\* without share whose header has the commitment of the empty payload) the
\* computed dispersal, and the payload if the leaf has one.
InsertsOf(j, genesis) ==
    LET li == Chrono(j)
        h  == li.leaf.block_header
    IN  << [op  |-> "insert_leaf",
            arg |-> LeafQueryData(li.leaf, ExpectedQc(j))] >>
        \o (IF IsSome(li.vid_share)
            THEN << [op  |-> "insert_vid",
                     arg |-> [common |-> VidCommonQueryData(h,
                                             Unwrap(li.vid_share).common),
                              share  |-> Some(Unwrap(li.vid_share).share)]] >>
            ELSE IF /\ li.leaf.view_number = 0
                    /\ h.payload_commitment = EmptyCommit
                    /\ genesis
                 THEN << [op  |-> "insert_vid",
                          arg |-> [common |-> VidCommonQueryData(h,
                                                  <<"genesis_common">>),
                                   share  |-> Some(<<"genesis_share", 1>>)]] >>
                 ELSE << >>)
        \o (IF IsSome(li.leaf.block_payload)
            THEN << [op  |-> "insert_block",
                     arg |-> BlockQueryData(h, Unwrap(li.leaf.block_payload))] >>
            ELSE << >>)

\* The inserts of a run of the event in which nothing fails at all: every
\* dispersal is computed.
RECURSIVE FaultFree(_)
FaultFree(m) ==
    IF m = 0 THEN << >> ELSE FaultFree(m - 1) \o InsertsOf(m, TRUE)

\* The inserts of a run of the event in which no insert fails and the
\* dispersal of the empty payload is computed for the leaves for which this
\* run computed it.
RECURSIVE NoInsertFails(_)
NoInsertFails(m) ==
    IF m = 0 THEN << >>
    ELSE NoInsertFails(m - 1) \o
         InsertsOf(m, ~LoggedFor("unable to compute VID dispersal for genesis block",
                                 Chrono(m).leaf.block_header))

Issued == [i \in 1..Len(calls) |-> RecordOf(calls[i])]
IsPrefix(s, t) == Len(s) <= Len(t) /\ s = SubSeq(t, 1, Len(s))

(***************************************************************************)
(* C18 as stated: when update returns a failure, the inserts it issued are *)
(* a prefix of the inserts of a run of the same event in which nothing     *)
(* fails, and no insert was issued after an insert that failed.            *)
(***************************************************************************)
C18_AsStated ==
    (IsDecide /\ Done /\ result \in Failures) =>
        /\ IsPrefix(Issued, FaultFree(N))
        /\ \A i \in 1..(Len(calls) - 1) : calls[i].ok

(***************************************************************************)
(* C18, amended.  When update returns a failure, the inserts it issued are *)
(* a prefix of the inserts of a run of the same event in which no insert   *)
(* fails and the same dispersals are computed; no insert was issued twice; *)
(* on a storage failure the last insert issued is the one that failed and  *)
(* the one update reports, on an inconsistent leaf the inserts are all     *)
(* those of the older leaves; the only failed insert that is followed by   *)
(* others is the one of store_genesis_vid; and the inserts that returned   *)
(* Ok are all still pending in the transaction of the caller.              *)
(***************************************************************************)
C18_FailurePrefix ==
    (IsDecide /\ Done /\ result \in Failures) =>
        /\ IsPrefix(Issued, NoInsertFails(N))
        /\ \A a, b \in 1..Len(calls) : a # b => Issued[a] # Issued[b]
        /\ \A i \in 1..(Len(calls) - 1) :
              ~calls[i].ok => IsGenesisVid(calls[i])
        /\ result # "inconsistent leaf" =>
              /\ calls # << >>
              /\ ~calls[Len(calls)].ok
              /\ result = FailureOf(calls[Len(calls)].op)
              /\ HeaderOf(calls[Len(calls)]) = Chrono(k).leaf.block_header
        /\ result = "inconsistent leaf" => Issued = NoInsertFails(k - 1)
        /\ conn[Caller].staged = OkRecords
        /\ conn[Caller].mode = "write"

\* update has returned the failure of the insert_block of the second leaf,
\* after the inserts of the first leaf and two of the second went through.
C18_Witness ==
    /\ IsDecide /\ N = 2 /\ Done
    /\ result = "insert_block failed"
    /\ k = 2
    /\ Len(calls) = 6
    /\ \A i \in 1..5 : calls[i].ok
    /\ ~calls[6].ok
    /\ Issued = NoInsertFails(2)


\* What a set of records has of the event, leaving out the records of the
\* other connection.
OfUpdate(S) == S \ OtherRecords

\* Nothing or everything of what update inserted, and everything only after
\* update returned Ok and the caller committed.
NoneOrAll(S) ==
    \/ OfUpdate(S) = {}
    \/ /\ OfUpdate(S) = OkRecords
       /\ pc = "done" /\ result = "Ok"
       /\ conn[Caller].mode = "idle"

(***************************************************************************)
(* C19 as stated: no other transaction and not the storage has a part of   *)
(* the inserts of the update, and right after the caller reverted a failed *)
(* update the storage is what it was when the update began.                *)
(***************************************************************************)
C19_AsStated ==
    /\ \A d \in Conns \ {Caller} : conn[d].mode # "idle" => NoneOrAll(View(d))
    /\ NoneOrAll(store)
    /\ (last.op = "revert" /\ last.c = Caller) => store = {}

(***************************************************************************)
(* C19, amended.  The caller runs update in one write transaction, commits *)
(* it if update returned Ok and reverts it otherwise.  At every moment     *)
(* every other transaction reads none of the records update inserted or    *)
(* all of them, and all of them only after update returned Ok and the      *)
(* caller committed; the same holds of the storage; and once the caller    *)
(* has reverted a failed update the storage holds none of its records,     *)
(* only what it held when the update began and what other connections      *)
(* committed since, and the reverted inserts are pending nowhere.          *)
(***************************************************************************)
C19_AtomicBatch ==
    /\ \A d \in Conns \ {Caller} : conn[d].mode # "idle" => NoneOrAll(View(d))
    /\ NoneOrAll(store)
    /\ (result \in Failures /\ conn[Caller].mode = "idle") =>
          /\ OfUpdate(store) = {}
          /\ store \subseteq OtherRecords
          /\ conn[Caller].staged = {}
          /\ \A d \in Conns : OfUpdate(View(d)) = {}
    /\ (last.op = "revert" /\ last.c = Caller) =>
          /\ result \in Failures
          /\ last.staged = OkRecords

\* update returned Ok and the caller committed its records, several of
\* them; a transaction the other connection opened before the commit reads
\* none of them.
C19_Witness ==
    /\ pc = "done" /\ result = "Ok"
    /\ last.op = "commit" /\ last.c = Caller
    /\ Cardinality(OkRecords) >= 2
    /\ OkRecords \subseteq store
    /\ conn[Other].mode # "idle"
    /\ OfUpdate(View(Other)) = {}


(***************************************************************************)
(* C20.  A Decide event with an empty leaf chain: the event's qc is the    *)
(* only certificate, skip(1) drops it, the zip has no pair, and update     *)
(* makes no insert, logs nothing, leaves the transaction of the caller as  *)
(* it was and returns Ok.                                                  *)
(***************************************************************************)
C20_EmptyChain ==
    (IsDecide /\ N = 0) =>
        /\ Qcs(event) = << >>
        /\ Pairs(event) = << >>
        /\ calls = << >>
        /\ logged = << >>
        /\ SourceUntouched
        /\ pc \in {"start", "loop", "done"}
        /\ result \in {"pending", "Ok"}
        /\ Done <=> result = "Ok"

\* update has returned from a Decide event with no leaf.
C20_Witness ==
    /\ IsDecide
    /\ N = 0
    /\ event.qc = CertFor(0, 0)
    /\ Done
    /\ result = "Ok"

=============================================================================
